---- MODULE Spec2Model ----
(***************************************************************************)
(* Model of the widget OWthermal_load of ow_FE-2-Shadow.py: the fields it  *)
(* reads and writes, the labels it re-renders when the workspace units     *)
(* change, the external surface writer it calls and the output channel it  *)
(* sends to.  Every handler of the class is one action.  The fields the    *)
(* class only reads (workspace units, file name) are assigned by the host  *)
(* framework; those assignments are the actions set_workspace_units and    *)
(* set_heigth_profile_file_name.                                           *)
(***************************************************************************)
EXTENDS Integers, Sequences, FiniteSets, TLC

\* ------------------------------------------------------------------ bounds
MaxSent == 2        \* packets kept on the output channel
MaxWrites == 1      \* invocations of the external writer
MaxUnitCalls == 2   \* completed after_change_workspace_units calls

\* ------------------------------------------------------------- input sets
\* A length factor is a positive rational or zero, kept as num/den in lowest
\* terms (1.0 is 1/1, 0.001 is 1/1000).
Rat(n, d) == [num |-> n, den |-> d]

\* The workspace units the host can assign: metres, millimetres, and a
\* degenerate assignment whose factor is zero.
WorkspaceUnits ==
    { [label |-> "m",  to_m |-> Rat(1, 1)],
      [label |-> "mm", to_m |-> Rat(1, 1000)],
      [label |-> "m",  to_m |-> Rat(0, 1)] }

FileNames == {"mirror.dat", "thermal.dat"}

\* The arrays handed to the writer; the three of one surface are distinct.
Surfaces ==
    { [zz |-> "zz0", xx |-> "xx0", yy |-> "yy0"] }

\* (dimension_x, dimension_y) arguments of send_data.
Dimensions == { <<10, 20>>, <<20, 10>> }

\* ----------------------------------------------------------------- fields
\* The ten length fields whose label gets the unit appended (lines 39-51 and
\* 62-69), in the order the code visits them.
LengthFields ==
    { "dimension_y", "step_y", "correlation_length_y",
      "dimension_x", "step_x", "correlation_length_x",
      "new_length_y_1", "new_length_y_2", "new_length_x_1", "new_length_x_2" }

\* The conversion-factor fields whose label is overwritten (lines 53-60).
AbscissaFields == { "conversion_factor_y_x", "conversion_factor_x_x" }
HeightFields == { "conversion_factor_y_y", "conversion_factor_x_y" }

Fields == LengthFields \cup AbscissaFields \cup HeightFields

\* The text a field's label carries after construction: the field's caption.
BaseText(f) == f

\* What resources.package_dirname("orangecontrib.elettra.shadow.widgets.extension")
\* returns at line 28: the directory of the installed package.  The call
\* belongs to a library outside this repository, so its result is an input.
PackageDirnames ==
    { "/usr/lib/python3/site-packages/orangecontrib/elettra/shadow/widgets/extension" }

\* s.startswith("/") and s.endswith("/").
StartsWithSep(s) == Len(s) > 0 /\ SubSeq(s, 1, 1) = "/"
EndsWithSep(s) == Len(s) > 0 /\ SubSeq(s, Len(s), Len(s)) = "/"

\* os.path.join(a, b) (posixpath, line 28): an absolute b replaces a; no
\* separator is added after an empty a or one that ends in "/".
os_path_join(a, b) ==
    IF StartsWithSep(b) THEN b
    ELSE IF a = "" \/ EndsWithSep(a) THEN a \o b
    ELSE a \o "/" \o b

\* The class attribute usage_path as computed at class creation (line 28):
\* os.path.join(dirname, "misc", "height_error_profile_usage.png").
UsagePath(dirname) ==
    os_path_join(os_path_join(dirname, "misc"),
                 "height_error_profile_usage.png")

VARIABLES
    workspace_units_label,      \* self.workspace_units_label
    workspace_units_to_m,       \* self.workspace_units_to_m
    si_to_user_units,           \* self.si_to_user_units
    axis_xlabel,                \* self.axis x label
    axis_ylabel,                \* self.axis y label
    labels,                     \* text of the label in front of each field
    zz, xx, yy,                 \* self.zz, self.xx, self.yy
    heigth_profile_file_name,   \* self.heigth_profile_file_name
    usage_path,                 \* OWthermal_load.usage_path
    sent,                       \* packets passed to self.send, in order
    writer_calls,               \* invocations of ST.write_shadow_surface, in order
    completed,                  \* number of calls that returned normally, per handler
    written,                    \* a write completed for the current file name
    last                        \* the step that happened last and its result

fields == << workspace_units_label, workspace_units_to_m, si_to_user_units,
             axis_xlabel, axis_ylabel, labels, zz, xx, yy,
             heigth_profile_file_name, usage_path >>

vars == << workspace_units_label, workspace_units_to_m, si_to_user_units,
           axis_xlabel, axis_ylabel, labels, zz, xx, yy,
           heigth_profile_file_name, usage_path, sent, writer_calls,
           completed, written, last >>

\* --------------------------------------------------------------- helpers
\* 1 / r (line 34), for r # 0.
Reciprocal(r) == Rat(r.den, r.num)

\* A division that never raises (a zero divisor yields an infinite value).
DivisionRaises_never(r) == FALSE

\* The division of line 34 raises ZeroDivisionError exactly when the divisor
\* is zero.
DivisionRaises(r) == r.num = 0

\* Both axes get the x axis' text.
AxisLabel_always_x(name, u) == "X" \o " [" \o u \o "]"

\* "X [" + label + "]" and "Y [" + label + "]" (lines 36-37).
AxisLabel(name, u) == name \o " [" \o u \o "]"

\* label.text() + " [" + label + "]" (lines 40, 42, ..., 69).
AppendUnit(text, u) == text \o " [" \o u \o "]"

\* The abscissa label written with the height label's text.
AbscissaLabel_height(u) ==
    "Conversion from file to " \o u \o "\n(Height Profile Values)"

\* "Conversion from file to " + label + "\n(Abscissa)" (lines 54, 58).
AbscissaLabel(u) == "Conversion from file to " \o u \o "\n(Abscissa)"

\* "Conversion from file to " + label + "\n(Height Profile Values)" (lines 56, 60).
HeightLabel(u) == "Conversion from file to " \o u \o "\n(Height Profile Values)"

\* The fourteen setText calls of lines 39-69.
Relabel(lbls, u) ==
    [f \in Fields |->
        IF f \in LengthFields THEN AppendUnit(lbls[f], u)
        ELSE IF f \in AbscissaFields THEN AbscissaLabel(u)
        ELSE HeightLabel(u)]

\* The two dimensions exchanged.
ShadowPreProcessorData_swapped(file, dimension_x, dimension_y) ==
    [error_profile_data_file |-> file,
     error_profile_x_dim |-> dimension_y,
     error_profile_y_dim |-> dimension_x]

\* ShadowPreProcessorData(error_profile_data_file=..., error_profile_x_dim=...,
\* error_profile_y_dim=...) (lines 82-84).
ShadowPreProcessorData(file, dimension_x, dimension_y) ==
    [error_profile_data_file |-> file,
     error_profile_x_dim |-> dimension_x,
     error_profile_y_dim |-> dimension_y]

\* self.send(channel, data): one packet more on the named channel (line 82).
send(out, channel, data) == Append(out, [channel |-> channel, data |-> data])

\* The arrays in the order x, y, z.
WriterArgs_xyz == << xx, yy, zz, heigth_profile_file_name >>

\* The file name passed first.
WriterArgs_name_first == << heigth_profile_file_name, zz, xx, yy >>

\* The argument tuple of ST.write_shadow_surface (line 79).
WriterArgs == << zz, xx, yy, heigth_profile_file_name >>

\* A writer error caught and dropped.
WriteResult_swallowed(outcome) == "None"

\* What write_error_profile_file hands its caller for an outcome of the
\* writer: the method has no try/except, so the writer's error is the call's.
WriteResult(outcome) == outcome

\* The declared output channels (lines 22-25).
outputs == { "PreProcessor_Data" }

\* A step that was taken: the operation, its arguments and what it returned
\* or raised.
Step(op, args, result) == [op |-> op, args |-> args, result |-> result]

\* ------------------------------------------------------------------ Init
Init ==
    /\ workspace_units_label = "m"
    /\ workspace_units_to_m = Rat(1, 1)
    /\ si_to_user_units = Rat(1, 1)
    /\ axis_xlabel = "X"
    /\ axis_ylabel = "Y"
    /\ labels = [f \in Fields |-> BaseText(f)]
    /\ \E s \in Surfaces : zz = s.zz /\ xx = s.xx /\ yy = s.yy
    /\ heigth_profile_file_name = "mirror.dat"
    /\ \E dirname \in PackageDirnames : usage_path = UsagePath(dirname)
    /\ sent = << >>
    /\ writer_calls = << >>
    /\ completed = [after_change_workspace_units |-> 0,
                    write_error_profile_file |-> 0,
                    send_data |-> 0]
    /\ written = FALSE
    /\ last = Step("__init__", << >>, "None")

\* --------------------------------------------------------------- actions
\* The host assigns the workspace units.
set_workspace_units ==
    \E u \in WorkspaceUnits :
        /\ workspace_units_label' = u.label
        /\ workspace_units_to_m' = u.to_m
        /\ last' = Step("set_workspace_units", << >>, "None")
        /\ UNCHANGED << si_to_user_units, axis_xlabel, axis_ylabel, labels,
                        zz, xx, yy, heigth_profile_file_name, usage_path,
                        sent, writer_calls, completed, written >>

\* The host assigns the output file name.
set_heigth_profile_file_name ==
    \E f \in FileNames :
        /\ f # heigth_profile_file_name
        /\ heigth_profile_file_name' = f
        /\ written' = FALSE
        /\ last' = Step("set_heigth_profile_file_name", << >>, "None")
        /\ UNCHANGED << workspace_units_label, workspace_units_to_m,
                        si_to_user_units, axis_xlabel, axis_ylabel, labels,
                        zz, xx, yy, usage_path, sent, writer_calls,
                        completed >>

\* Lines 33-69.  When the division of line 34 raises, nothing after it runs.
after_change_workspace_units ==
    /\ completed.after_change_workspace_units < MaxUnitCalls
    /\ IF DivisionRaises(workspace_units_to_m)
       THEN /\ last' = Step("after_change_workspace_units", << >>,
                            "ZeroDivisionError")
            /\ UNCHANGED << si_to_user_units, axis_xlabel, axis_ylabel,
                            labels, completed >>
       ELSE /\ si_to_user_units' = Reciprocal(workspace_units_to_m)
            /\ axis_xlabel' = AxisLabel("X", workspace_units_label)
            /\ axis_ylabel' = AxisLabel("Y", workspace_units_label)
            /\ labels' = Relabel(labels, workspace_units_label)
            /\ completed' = [completed EXCEPT
                                !.after_change_workspace_units = @ + 1]
            /\ last' = Step("after_change_workspace_units", << >>, "None")
    /\ UNCHANGED << workspace_units_label, workspace_units_to_m, zz, xx, yy,
                    heigth_profile_file_name, usage_path, sent, writer_calls,
                    written >>

\* Lines 72-73.
get_usage_path ==
    /\ last' = Step("get_usage_path", << >>, usage_path)
    /\ UNCHANGED << fields, sent, writer_calls, completed, written >>

\* Lines 75-76.
get_axis_um ==
    /\ last' = Step("get_axis_um", << >>, workspace_units_label)
    /\ UNCHANGED << fields, sent, writer_calls, completed, written >>

\* A write_error_profile_file that also announces the file downstream.
write_error_profile_file_sends ==
    /\ Len(writer_calls) < MaxWrites
    /\ Len(sent) < MaxSent
    /\ \E outcome \in { "None", "WriterError" } :
        /\ writer_calls' = Append(writer_calls,
                                  [args |-> WriterArgs, outcome |-> outcome])
        /\ IF WriteResult(outcome) = "None"
           THEN /\ completed' = [completed EXCEPT
                                    !.write_error_profile_file = @ + 1]
                /\ written' = (outcome = "None")
                /\ sent' = send(sent, "PreProcessor_Data",
                                ShadowPreProcessorData(heigth_profile_file_name,
                                                       0, 0))
           ELSE UNCHANGED << completed, written, sent >>
        /\ last' = Step("write_error_profile_file", << >>,
                        WriteResult(outcome))
    /\ UNCHANGED fields

\* Lines 78-79.  The external writer either writes the file or raises; the
\* call completes when nothing reaches its caller, and the file is there
\* only when the writer itself succeeded.
write_error_profile_file ==
    /\ Len(writer_calls) < MaxWrites
    /\ \E outcome \in { "None", "WriterError" } :
        /\ writer_calls' = Append(writer_calls,
                                  [args |-> WriterArgs, outcome |-> outcome])
        /\ IF WriteResult(outcome) = "None"
           THEN /\ completed' = [completed EXCEPT
                                    !.write_error_profile_file = @ + 1]
                /\ written' = (outcome = "None")
           ELSE UNCHANGED << completed, written >>
        /\ last' = Step("write_error_profile_file", << >>,
                        WriteResult(outcome))
    /\ UNCHANGED << fields, sent >>

\* A send_data that forgets the file name once it is sent.
send_data_clears_name(dimension_x, dimension_y) ==
    /\ Len(sent) < MaxSent
    /\ sent' = send(sent, "PreProcessor_Data",
                    ShadowPreProcessorData(heigth_profile_file_name,
                                           dimension_x, dimension_y))
    /\ completed' = [completed EXCEPT !.send_data = @ + 1]
    /\ last' = Step("send_data", << dimension_x, dimension_y >>, "None")
    /\ heigth_profile_file_name' = ""
    /\ UNCHANGED << workspace_units_label, workspace_units_to_m,
                    si_to_user_units, axis_xlabel, axis_ylabel, labels,
                    zz, xx, yy, usage_path, writer_calls, written >>

\* Lines 81-84.
send_data(dimension_x, dimension_y) ==
    /\ Len(sent) < MaxSent
    /\ sent' = send(sent, "PreProcessor_Data",
                    ShadowPreProcessorData(heigth_profile_file_name,
                                           dimension_x, dimension_y))
    /\ completed' = [completed EXCEPT !.send_data = @ + 1]
    /\ last' = Step("send_data", << dimension_x, dimension_y >>, "None")
    /\ UNCHANGED << fields, writer_calls, written >>

Next ==
    \/ set_workspace_units
    \/ set_heigth_profile_file_name
    \/ after_change_workspace_units
    \/ get_usage_path
    \/ get_axis_um
    \/ write_error_profile_file
    \/ \E d \in Dimensions : send_data(d[1], d[2])

Spec == Init /\ [][Next]_vars

\* ---------------------------------------------------------------- claims
LastOf(s) == s[Len(s)]

Called(op) == last.op = op
Returned(op) == last.op = op /\ last.result = "None"

\* A successful invocation of the writer for file name f is on record.
WrittenOk(f) ==
    \E i \in DOMAIN writer_calls :
        /\ writer_calls[i].outcome = "None"
        /\ writer_calls[i].args[4] = f

\* C1: every send_data(dimension_x, dimension_y) puts exactly one packet on
\* the channel "PreProcessor_Data"; the packet carries the file name the
\* widget holds at the call, dimension_x as x and dimension_y as y.
C1_send_data_packet ==
    [][ last'.op = "send_data" =>
          /\ Len(sent') = Len(sent) + 1
          /\ SubSeq(sent', 1, Len(sent)) = sent
          /\ LastOf(sent').channel = "PreProcessor_Data"
          /\ LastOf(sent').data =
                [error_profile_data_file |-> heigth_profile_file_name,
                 error_profile_x_dim |-> last'.args[1],
                 error_profile_y_dim |-> last'.args[2]] ]_vars

C1_witness ==
    /\ Returned("send_data")
    /\ last.args = << 10, 20 >>
    /\ heigth_profile_file_name = "thermal.dat"
    /\ Len(sent) = 2

\* C2 as claimed: every packet send_data emits names a file that an earlier
\* successful write_error_profile_file wrote, the file name not having
\* changed between that write and the send.
C2_packet_file_was_written ==
    Called("send_data") =>
        /\ written
        /\ WrittenOk(LastOf(sent).data.error_profile_data_file)

\* C2 as amended: a packet carries the file name the widget holds at the
\* send; when a write has completed for that name and the name has not
\* changed since, it is the name that write passed to the writer.  Nothing
\* makes a write precede a send.
C2_packet_names_current_file ==
    /\ written => WrittenOk(heigth_profile_file_name)
    /\ Called("send_data") =>
          LastOf(sent).data.error_profile_data_file = heigth_profile_file_name

C2_witness ==
    /\ Called("send_data")
    /\ written
    /\ LastOf(sent).data.error_profile_data_file = "mirror.dat"
    /\ LastOf(writer_calls).args[4] = "mirror.dat"

\* C3: send_data is the only operation that emits: a step that is not a
\* send_data leaves the channel as it is, every packet is on the declared
\* channel "PreProcessor_Data", and there are as many packets as completed
\* send_data calls.
C3_only_send_data_emits ==
    /\ [](Len(sent) = completed.send_data)
    /\ [](\A i \in DOMAIN sent :
             sent[i].channel \in outputs /\ sent[i].channel = "PreProcessor_Data")
    /\ [][ last'.op # "send_data" => sent' = sent ]_vars

C3_witness ==
    /\ Len(sent) = 1
    /\ Len(writer_calls) = 1
    /\ completed.after_change_workspace_units = 1
    /\ Called("get_axis_um")

\* C4: write_error_profile_file invokes the writer exactly once, with
\* (zz, xx, yy, heigth_profile_file_name) in this order, and changes no
\* field of the widget.
C4_write_calls_writer_once ==
    [][ last'.op = "write_error_profile_file" =>
          /\ Len(writer_calls') = Len(writer_calls) + 1
          /\ SubSeq(writer_calls', 1, Len(writer_calls)) = writer_calls
          /\ LastOf(writer_calls').args[1] = zz
          /\ LastOf(writer_calls').args[2] = xx
          /\ LastOf(writer_calls').args[3] = yy
          /\ LastOf(writer_calls').args[4] = heigth_profile_file_name
          /\ Len(LastOf(writer_calls').args) = 4
          /\ UNCHANGED fields ]_vars

C4_witness ==
    /\ Returned("write_error_profile_file")
    /\ LastOf(writer_calls).args = << "zz0", "xx0", "yy0", "thermal.dat" >>
    /\ completed.after_change_workspace_units = 1

\* C5 as claimed: after a completed after_change_workspace_units, each of
\* the ten length-field labels is its base text followed by one suffix
\* " [u]", u the workspace unit of that call.
C5_one_unit_suffix ==
    Returned("after_change_workspace_units") =>
        \A f \in LengthFields :
            labels[f] = BaseText(f) \o " [" \o workspace_units_label \o "]"

\* C6: after a completed after_change_workspace_units with unit u the axis
\* labels are "X [u]" and "Y [u]", u being what get_axis_um returns; the
\* same call repeated with the same unit leaves them as they are.
C6_axis_labels ==
    /\ [](Returned("after_change_workspace_units") =>
             /\ axis_xlabel = "X [" \o workspace_units_label \o "]"
             /\ axis_ylabel = "Y [" \o workspace_units_label \o "]")
    /\ [](Called("get_axis_um") => last.result = workspace_units_label)
    /\ [][ ( /\ Returned("after_change_workspace_units")
             /\ last'.op = "after_change_workspace_units"
             /\ last'.result = "None" )
           => (axis_xlabel' = axis_xlabel /\ axis_ylabel' = axis_ylabel) ]_vars

C6_witness ==
    /\ Returned("after_change_workspace_units")
    /\ completed.after_change_workspace_units = 2
    /\ axis_xlabel = "X [mm]"
    /\ axis_ylabel = "Y [mm]"

\* C7: after a completed after_change_workspace_units with unit u the
\* labels of the conversion factors x_x and y_x read
\* "Conversion from file to u\n(Abscissa)" and those of x_y and y_y read
\* "Conversion from file to u\n(Height Profile Values)", whatever they read
\* before.
C7_conversion_labels ==
    Returned("after_change_workspace_units") =>
        /\ labels["conversion_factor_x_x"] =
              "Conversion from file to " \o workspace_units_label \o "\n(Abscissa)"
        /\ labels["conversion_factor_y_x"] =
              "Conversion from file to " \o workspace_units_label \o "\n(Abscissa)"
        /\ labels["conversion_factor_x_y"] =
              "Conversion from file to " \o workspace_units_label
                 \o "\n(Height Profile Values)"
        /\ labels["conversion_factor_y_y"] =
              "Conversion from file to " \o workspace_units_label
                 \o "\n(Height Profile Values)"

C7_witness ==
    /\ Returned("after_change_workspace_units")
    /\ completed.after_change_workspace_units = 2
    /\ workspace_units_label = "mm"
    /\ labels["conversion_factor_x_x"] = "Conversion from file to mm\n(Abscissa)"
    /\ labels["dimension_x"] = "dimension_x [m] [mm]"

\* C8: when the writer fails, write_error_profile_file ends with that error,
\* emits no packet and leaves the widget's fields as they were.
C8_writer_failure_propagates ==
    /\ [](Called("write_error_profile_file") =>
             last.result = LastOf(writer_calls).outcome)
    /\ [][ ( /\ last'.op = "write_error_profile_file"
             /\ LastOf(writer_calls').outcome = "WriterError" )
           => /\ last'.result = "WriterError"
              /\ sent' = sent
              /\ UNCHANGED fields ]_vars

C8_witness ==
    /\ Called("write_error_profile_file")
    /\ last.result = "WriterError"
    /\ heigth_profile_file_name = "thermal.dat"
    /\ Len(sent) = 1

\* C9: after_change_workspace_units sets si_to_user_units to
\* 1 / workspace_units_to_m first; with workspace_units_to_m zero the call
\* fails there and si_to_user_units, the axis labels and the fourteen field
\* labels keep their values.
C9_zero_factor_fails_first ==
    [][ last'.op = "after_change_workspace_units" =>
          IF workspace_units_to_m.num = 0
          THEN /\ last'.result = "ZeroDivisionError"
               /\ UNCHANGED << si_to_user_units, axis_xlabel, axis_ylabel,
                               labels >>
          ELSE /\ last'.result = "None"
               /\ si_to_user_units'.num * workspace_units_to_m.num
                     = si_to_user_units'.den * workspace_units_to_m.den ]_vars

C9_witness ==
    /\ Called("after_change_workspace_units")
    /\ last.result = "ZeroDivisionError"
    /\ workspace_units_label = "m"
    /\ axis_xlabel = "X [mm]"
    /\ si_to_user_units = Rat(1000, 1)
    /\ labels["step_y"] = "step_y [mm]"

\* C10: send_data, get_usage_path and get_axis_um change no field of the
\* widget; two send_data calls in a row with the same dimensions emit equal
\* packets, and get_usage_path always returns the same path: the class
\* attribute usage_path, which no operation changes.
C10_readers_change_nothing ==
    /\ [](Called("get_usage_path") => last.result = usage_path)
    /\ [][ usage_path' = usage_path ]_vars
    /\ [][ last'.op \in { "send_data", "get_usage_path", "get_axis_um" }
           => UNCHANGED fields ]_vars
    /\ [][ ( /\ Called("send_data")
             /\ last'.op = "send_data"
             /\ last'.args = last.args )
           => LastOf(sent').data = LastOf(sent).data ]_vars

C10_witness ==
    /\ Called("send_data")
    /\ Len(sent) = 2
    /\ sent[1] = sent[2]
    /\ completed.write_error_profile_file = 1

====
